---------------------------- MODULE Spec2Model ----------------------------
(* IntervalMap (src/src/lib.rs): a BTreeMap of breakpoints key -> value,   *)
(* a range insert over [begin_key, end_key) and a point lookup done by a   *)
(* binary search over the sorted keys.                                     *)
EXTENDS Integers, Sequences, FiniteSets, TLC

\* i32::MIN, the value of <i32 as Min>::minimum()
I32Min == -2147483647 - 1

\* Largest non-sentinel key of the model; keys are I32Min and 0..MaxKey.
MaxKey == 2
\* Number of distinct values of V.
NumVals == 3

Keys == {I32Min} \cup (0..MaxKey)
Values == 1..NumVals

\* Result of an unwrap() on None (a panic).
Panic == "panic"

VARIABLES
    m_map,     \* the breakpoint table: a function from a finite set of keys
    prev,      \* the table before the call that has just returned
    last,      \* the call that has just returned, with its arguments
    ref,       \* reference total function key -> value, updated pointwise
    repeated   \* the call that has just returned repeats the call before it

vars == <<m_map, prev, last, ref, repeated>>

-----------------------------------------------------------------------------
(* BTreeMap primitives *)

MapInsertKeep(m, k, v) == [x \in (DOMAIN m) \cup {k} |-> IF x \in DOMAIN m THEN m[x] ELSE v]

\* BTreeMap::insert: add or overwrite one entry
MapInsert(m, k, v) == [x \in (DOMAIN m) \cup {k} |-> IF x = k THEN v ELSE m[x]]

\* BTreeMap::remove
MapRemove(m, k) == [x \in (DOMAIN m) \ {k} |-> m[x]]

\* every key of the model in ascending order (the Ord of i32)
KeysAscending == <<I32Min>> \o [i \in 1..(MaxKey + 1) |-> i - 1]

\* BTreeMap::keys(): the keys of the map in ascending order
SortedSeq(S) == SelectSeq(KeysAscending, LAMBDA k : k \in S)

SortedKeys(m) == SortedSeq(DOMAIN m)

-----------------------------------------------------------------------------
(* IntervalMap::new *)

NewAtZero(init_val) == MapInsert(<<>>, 0, init_val)

New(init_val) == MapInsert(<<>>, I32Min, init_val)

-----------------------------------------------------------------------------
(* IntervalMap::find_index; indices are 0-based as in the source *)

RECURSIVE FindLoop(_, _, _, _)
\* the while loop; yields the exit state, found = TRUE on the early return
FindLoop(keys, key, low, high) ==
    IF low <= high
    THEN LET mid == low + ((high - low) \div 2)
         IN IF keys[mid + 1] < key THEN FindLoop(keys, key, mid + 1, high)
            ELSE IF keys[mid + 1] > key THEN FindLoop(keys, key, low, mid - 1)
            ELSE [found |-> TRUE, idx |-> mid, low |-> low, high |-> high]
    ELSE [found |-> FALSE, idx |-> 0, low |-> low, high |-> high]

FindIndexCeil(keys, key) ==
    LET r == FindLoop(keys, key, 0, Len(keys) - 1)
    IN IF r.found THEN r.idx
       ELSE IF r.high < 0 THEN 0
       ELSE IF r.low > Len(keys) - 1 THEN Len(keys) - 1
       ELSE IF r.low > r.high THEN r.low ELSE r.high

FindIndex(keys, key) ==
    LET r == FindLoop(keys, key, 0, Len(keys) - 1)
    IN IF r.found THEN r.idx
       ELSE IF r.high < 0 THEN 0
       ELSE IF r.low > Len(keys) - 1 THEN Len(keys) - 1
       ELSE IF r.low < r.high THEN r.low ELSE r.high

\* IntervalMap::get; both unwraps panic on None
Get(m, key) ==
    LET sorted_keys == SortedKeys(m)
        idx == FindIndex(sorted_keys, key)
    IN IF idx + 1 \in 1..Len(sorted_keys)
       THEN LET k == sorted_keys[idx + 1]
            IN IF k \in DOMAIN m THEN m[k] ELSE Panic
       ELSE Panic

-----------------------------------------------------------------------------
(* IntervalMap::insert *)

RECURSIVE ScanKeysFromStale(_, _, _, _, _, _)
ScanKeysFromStale(m, keys, i, begin_key, end_key, st) ==
    IF i > Len(keys) THEN st
    ELSE LET elem == keys[i]
         IN IF elem < begin_key
            THEN ScanKeysFromStale(m, keys, i + 1, begin_key, end_key, st)
            ELSE IF elem > end_key THEN st
            ELSE ScanKeysFromStale(m, keys, i + 1, begin_key, end_key,
                     [before_key |-> elem,
                      before_val |-> st.before_val,
                      to_delete  |-> IF st.before_key # elem
                                     THEN Append(st.to_delete, elem)
                                     ELSE st.to_delete])

RECURSIVE ScanKeysFromAll(_, _, _, _, _, _)
ScanKeysFromAll(m, keys, i, begin_key, end_key, st) ==
    IF i > Len(keys) THEN st
    ELSE LET elem == keys[i]
         IN IF elem < begin_key
            THEN ScanKeysFromAll(m, keys, i + 1, begin_key, end_key, st)
            ELSE IF elem > end_key THEN st
            ELSE ScanKeysFromAll(m, keys, i + 1, begin_key, end_key,
                     [before_key |-> elem,
                      before_val |-> m[elem],
                      to_delete  |-> Append(st.to_delete, elem)])

RECURSIVE ScanKeysFromHalfOpen(_, _, _, _, _, _)
ScanKeysFromHalfOpen(m, keys, i, begin_key, end_key, st) ==
    IF i > Len(keys) THEN st
    ELSE LET elem == keys[i]
         IN IF elem < begin_key
            THEN ScanKeysFromHalfOpen(m, keys, i + 1, begin_key, end_key, st)
            ELSE IF elem >= end_key THEN st
            ELSE ScanKeysFromHalfOpen(m, keys, i + 1, begin_key, end_key,
                     [before_key |-> elem,
                      before_val |-> m[elem],
                      to_delete  |-> IF st.before_key # elem
                                     THEN Append(st.to_delete, elem)
                                     ELSE st.to_delete])

RECURSIVE ScanKeysFromNoBreak(_, _, _, _, _, _)
ScanKeysFromNoBreak(m, keys, i, begin_key, end_key, st) ==
    IF i > Len(keys) THEN st
    ELSE LET elem == keys[i]
         IN IF elem < begin_key
            THEN ScanKeysFromNoBreak(m, keys, i + 1, begin_key, end_key, st)
            ELSE ScanKeysFromNoBreak(m, keys, i + 1, begin_key, end_key,
                     [before_key |-> elem,
                      before_val |-> m[elem],
                      to_delete  |-> IF st.before_key # elem
                                     THEN Append(st.to_delete, elem)
                                     ELSE st.to_delete])

RECURSIVE ScanKeysFrom(_, _, _, _, _, _)
\* one iteration of the first for loop of insert, from the i-th key on
ScanKeysFrom(m, keys, i, begin_key, end_key, st) ==
    IF i > Len(keys) THEN st
    ELSE LET elem == keys[i]
         IN IF elem < begin_key
            THEN ScanKeysFrom(m, keys, i + 1, begin_key, end_key, st)
            ELSE IF elem > end_key THEN st
            ELSE ScanKeysFrom(m, keys, i + 1, begin_key, end_key,
                     [before_key |-> elem,
                      before_val |-> m[elem],
                      to_delete  |-> IF st.before_key # elem
                                     THEN Append(st.to_delete, elem)
                                     ELSE st.to_delete])

\* the first for loop of insert: skip keys below begin_key, stop above end_key
ScanKeys(m, begin_key, end_key, before_val) ==
    ScanKeysFrom(m, SortedKeys(m), 1, begin_key, end_key,
                 [before_key |-> begin_key,
                  before_val |-> before_val,
                  to_delete  |-> <<>>])

RECURSIVE RemoveAllSkipFirst(_, _)
RemoveAllSkipFirst(m, to_delete) ==
    IF to_delete = <<>> \/ Tail(to_delete) = <<>> THEN m
    ELSE MapRemove(RemoveAllSkipFirst(m, Tail(to_delete)), Head(Tail(to_delete)))

RECURSIVE RemoveAll(_, _)
\* the second for loop of insert
RemoveAll(m, to_delete) ==
    IF to_delete = <<>> THEN m
    ELSE RemoveAll(MapRemove(m, Head(to_delete)), Tail(to_delete))

InsertSwapped(m, begin_key, end_key, val) ==
    LET before_val0 == Get(m, begin_key)
        same_value  == before_val0 = val
        st == ScanKeys(m, begin_key, end_key, before_val0)
        m1 == RemoveAll(m, st.to_delete)
        m2 == IF st.before_val # val
              THEN MapInsert(m1, end_key, st.before_val)
              ELSE m1
    IN IF ~same_value THEN MapInsert(m2, begin_key, val) ELSE m2

InsertNoCarry(m, begin_key, end_key, val) ==
    LET before_val0 == Get(m, begin_key)
        same_value  == before_val0 = val
        st == ScanKeys(m, begin_key, end_key, before_val0)
        m1 == RemoveAll(m, st.to_delete)
    IN IF ~same_value THEN MapInsert(m1, begin_key, val) ELSE m1

InsertCarryAlways(m, begin_key, end_key, val) ==
    LET before_val0 == Get(m, begin_key)
        same_value  == before_val0 = val
        st == ScanKeys(m, begin_key, end_key, before_val0)
        m1 == RemoveAll(m, st.to_delete)
        m2 == IF ~same_value THEN MapInsert(m1, begin_key, val) ELSE m1
    IN MapInsert(m2, end_key, st.before_val)

InsertAlwaysBegin(m, begin_key, end_key, val) ==
    LET before_val0 == Get(m, begin_key)
        st == ScanKeys(m, begin_key, end_key, before_val0)
        m1 == RemoveAll(m, st.to_delete)
        m2 == MapInsert(m1, begin_key, val)
    IN IF st.before_val # val
       THEN MapInsert(m2, end_key, st.before_val)
       ELSE m2

\* insert: begin breakpoint first, then the end breakpoint
Insert(m, begin_key, end_key, val) ==
    LET before_val0 == Get(m, begin_key)
        same_value  == before_val0 = val
        st == ScanKeys(m, begin_key, end_key, before_val0)
        m1 == RemoveAll(m, st.to_delete)
        m2 == IF ~same_value THEN MapInsert(m1, begin_key, val) ELSE m1
    IN IF st.before_val # val
       THEN MapInsert(m2, end_key, st.before_val)
       ELSE m2

-----------------------------------------------------------------------------
(* The program: a map is constructed, then mutated by insert calls only *)

Init ==
    \E v0 \in Values :
        /\ m_map = New(v0)
        /\ prev = m_map
        /\ last = [op |-> "new", b |-> I32Min, e |-> I32Min, v |-> v0]
        /\ ref = [q \in Keys |-> v0]
        /\ repeated = FALSE

\* the total function key -> value that the table m denotes
Mapping(m) == [q \in Keys |-> Get(m, q)]

\* The reference after insert(b, e, v): v on [b, e), which is empty when
\* b = e. No reference behaviour is defined for b > e, so the reference
\* restarts there from what the table m denotes after the call.
RefAfter(b, e, v, m) ==
    IF b < e THEN [q \in Keys |-> IF b <= q /\ q < e THEN v ELSE ref[q]]
    ELSE IF b = e THEN ref
    ELSE Mapping(m)

\* one call of insert, with the record of the call and of the table before it
DoInsert(b, e, v, again) ==
    /\ m_map' = Insert(m_map, b, e, v)
    /\ prev' = m_map
    /\ last' = [op |-> "insert", b |-> b, e |-> e, v |-> v]
    /\ ref' = RefAfter(b, e, v, m_map')
    /\ repeated' = again

\* no record of a returned insert is held
Idle == last.op # "insert"

\* insert with begin_key < end_key
InsertRange ==
    /\ Idle
    /\ \E b \in Keys, e \in Keys, v \in Values : b < e /\ DoInsert(b, e, v, FALSE)

\* insert with begin_key = end_key
InsertEmpty ==
    /\ Idle
    /\ \E b \in Keys, v \in Values : DoInsert(b, b, v, FALSE)

\* insert with begin_key > end_key
InsertInverted ==
    /\ Idle
    /\ \E b \in Keys, e \in Keys, v \in Values : b > e /\ DoInsert(b, e, v, FALSE)

\* the insert that has just returned, called a second time in succession
InsertAgain ==
    /\ last.op = "insert"
    /\ ~repeated
    /\ DoInsert(last.b, last.e, last.v, TRUE)

\* The record of the returned call is dropped before the next call; the
\* table and the reference stay. Every sequence of insert calls is a
\* behaviour, with one such step after each call (or pair of equal calls).
Forget ==
    /\ last.op = "insert"
    /\ last' = [op |-> "none", b |-> I32Min, e |-> I32Min, v |-> 1]
    /\ prev' = m_map
    /\ repeated' = FALSE
    /\ UNCHANGED <<m_map, ref>>

Next == InsertRange \/ InsertEmpty \/ InsertInverted \/ InsertAgain \/ Forget

\* every call of insert the type allows
Spec == Init /\ [][Next]_vars

NextRange == InsertRange \/ Forget

\* only calls of insert with begin_key < end_key
SpecRange == Init /\ [][NextRange]_vars

-----------------------------------------------------------------------------
(* get and find_index as functions of the table: every non-empty table    *)
(* over the keys, with or without a breakpoint at the minimum key         *)

InitGet ==
    \E S \in (SUBSET Keys) \ {{}} :
        \E m \in [S -> Values] :
            /\ m_map = m
            /\ prev = m
            /\ last = [op |-> "none", b |-> I32Min, e |-> I32Min, v |-> 1]
            /\ ref = Mapping(m)
            /\ repeated = FALSE

\* one call of get; last.b is the key asked for and last.v the result
GetCall ==
    /\ last.op = "none"
    /\ \E q \in Keys :
           last' = [op |-> "get", b |-> q, e |-> q, v |-> Get(m_map, q)]
    /\ UNCHANGED <<m_map, prev, ref, repeated>>

SpecGet == InitGet /\ [][GetCall]_vars

-----------------------------------------------------------------------------
(* Properties *)

IsInsert == last.op = "insert"

\* the lookup result is the same before and after the last operation
SameAt(q) == Get(m_map, q) = Get(prev, q)

\* C1: after new(v0) and any sequence of inserts with begin_key < end_key,
\* get(q) is the value of the most recent insert whose range contains q, or
\* v0 if none does: the table agrees with the reference function updated
\* pointwise.
MostRecentInsertWins ==
    \A q \in Keys : Get(m_map, q) = ref[q]

\* an insert that overwrote part of an earlier insert, leaving other values
MostRecentInsertWinsWitness ==
    /\ IsInsert
    /\ \E k \in DOMAIN prev : last.b < k /\ k < last.e /\ prev[k] # last.v
    /\ \E q \in Keys : q >= last.e /\ ref[q] # last.v

\* C2: right after insert(b, e, v) with b < e, get(q) = v for every q in [b, e).
RangeAssigned ==
    (IsInsert /\ last.b < last.e) =>
        \A q \in Keys : (last.b <= q /\ q < last.e) => Get(m_map, q) = last.v

\* an insert from the sentinel key over a table with breakpoints at b, inside
\* (b, e) and at e, none of them holding v
RangeAssignedWitness ==
    /\ IsInsert /\ last.b = I32Min /\ last.b < last.e
    /\ last.e \in DOMAIN prev
    /\ \E k \in DOMAIN prev : last.b < k /\ k < last.e
    /\ \A k \in DOMAIN prev : prev[k] # last.v

\* C3: right after insert(b, e, v) with b <= e, get(e) is what it was before.
BoundaryExclusive ==
    (IsInsert /\ last.b <= last.e) => SameAt(last.e)

\* an insert whose end had a breakpoint with a value other than v
BoundaryExclusiveWitness ==
    /\ IsInsert /\ last.b < last.e
    /\ last.e \in DOMAIN prev
    /\ prev[last.e] # last.v
    /\ Get(prev, last.b) # last.v

\* C4: insert(b, e, v) with b > e leaves get(q) unchanged for every key q.
InvertedRangeNoOp ==
    (IsInsert /\ last.b > last.e) => \A q \in Keys : SameAt(q)

\* C5: insert(b, b, v) leaves get(q) unchanged for every key q.
EmptyRangeNoOp ==
    (IsInsert /\ last.b = last.e) => \A q \in Keys : SameAt(q)

\* an empty-range insert of a new value at a key without a breakpoint
EmptyRangeNoOpWitness ==
    /\ IsInsert /\ last.b = last.e
    /\ last.b \notin DOMAIN prev
    /\ Get(prev, last.b) # last.v

\* C6: insert(b, e, v) with b <= e issued twice in succession leaves the same
\* get(q) for every key q as issuing it once.
Idempotent ==
    (repeated /\ last.b <= last.e) => \A q \in Keys : SameAt(q)

\* the second of two equal inserts, the first of which changed the mapping
\* and left a breakpoint at e
IdempotentWitness ==
    /\ repeated /\ last.b < last.e
    /\ last.e \in DOMAIN prev
    /\ Get(prev, last.b) = last.v
    /\ Get(prev, last.e) # last.v

\* C7: the table always holds a breakpoint at the minimum key, and get
\* returns a value (no unwrap fails) for every key.
Totality ==
    /\ I32Min \in DOMAIN m_map
    /\ \A q \in Keys : Get(m_map, q) \in Values

\* an insert beginning at the sentinel key that rewrote the default
TotalityWitness ==
    /\ IsInsert /\ last.b = I32Min /\ last.b < last.e
    /\ prev[I32Min] # last.v
    /\ Cardinality(DOMAIN m_map) >= 3

\* C8: right after new(v0) the table is exactly {minimum -> v0} and
\* get(q) = v0 for every key q.
DefaultCoverage ==
    last.op = "new" =>
        /\ DOMAIN m_map = {I32Min}
        /\ m_map[I32Min] = last.v
        /\ \A q \in Keys : Get(m_map, q) = last.v

\* a freshly constructed map whose default is the last value of V
DefaultCoverageWitness ==
    /\ last.op = "new"
    /\ last.v = NumVals
    /\ Cardinality(DOMAIN m_map) = 1

\* C9: insert(b, e, v) with b <= e leaves get(q) unchanged for every q < b
\* and every q >= e.
ObservableFrame ==
    (IsInsert /\ last.b <= last.e) =>
        \A q \in Keys : (q < last.b \/ q >= last.e) => SameAt(q)

\* an insert that changed a key of its range, with breakpoints on both sides
ObservableFrameWitness ==
    /\ IsInsert /\ last.b < last.e
    /\ Get(prev, last.b) # last.v
    /\ \E k \in DOMAIN prev : k > last.e /\ prev[k] # last.v
    /\ \E k \in DOMAIN prev : k < last.b /\ prev[k] # last.v

\* no two adjacent breakpoints of m hold equal values
Canonical(m) ==
    LET keys == SortedKeys(m)
    IN \A i \in 1..(Len(keys) - 1) : m[keys[i]] # m[keys[i + 1]]

\* C10: after new(v0) and any sequence of inserts with begin_key < end_key,
\* no two adjacent breakpoints of the table hold equal values.
CanonicalForm == Canonical(m_map)

\* C11 as stated: after insert(b, e, v) with b < e the table has a
\* breakpoint at b if and only if the value covering b before differed from
\* v (it then maps b to v); when it equalled v, no breakpoint is left at b.
BeginBreakpointIffChanged ==
    (IsInsert /\ last.b < last.e) =>
        /\ (last.b \in DOMAIN m_map) <=> (Get(prev, last.b) # last.v)
        /\ (last.b \in DOMAIN m_map) => m_map[last.b] = last.v

\* C11 amended: after insert(b, e, v) with b < e the table has a breakpoint
\* at b if and only if the value covering b before differed from v or a
\* breakpoint was at b before; a breakpoint at b is never removed, and
\* whenever one is there it maps b to v.
BeginBreakpoint ==
    (IsInsert /\ last.b < last.e) =>
        /\ (last.b \in DOMAIN m_map) <=>
               (Get(prev, last.b) # last.v \/ last.b \in DOMAIN prev)
        /\ (last.b \in DOMAIN m_map) => m_map[last.b] = last.v

\* an insert of the value already held by a breakpoint at a non-sentinel b,
\* which the value before b does not continue
BeginBreakpointWitness ==
    /\ IsInsert /\ last.b < last.e
    /\ last.b # I32Min
    /\ last.b \in DOMAIN prev
    /\ prev[last.b] = last.v
    /\ \E k \in DOMAIN prev : k < last.b /\ Get(prev, k) # last.v
    /\ \A k \in DOMAIN prev : (k < last.b /\ prev[k] = last.v) =>
           \E j \in DOMAIN prev : k < j /\ j < last.b

\* C12: insert(b, b, v) leaves the breakpoint table itself unchanged.
EmptyRangeTableNoOp ==
    (IsInsert /\ last.b = last.e) => m_map = prev

\* C13: with carry = get(e) before insert(b, e, v), b < e, the table
\* afterwards has a breakpoint at e if and only if carry # v, and that
\* breakpoint maps e to carry.
EndBreakpoint ==
    (IsInsert /\ last.b < last.e) =>
        /\ (last.e \in DOMAIN m_map) <=> (Get(prev, last.e) # last.v)
        /\ (last.e \in DOMAIN m_map) => m_map[last.e] = Get(prev, last.e)

\* an insert that removed a breakpoint at e holding v, where the value
\* covering b before was another one
EndBreakpointWitness ==
    /\ IsInsert /\ last.b < last.e
    /\ last.e \in DOMAIN prev
    /\ prev[last.e] = last.v
    /\ Get(prev, last.b) # last.v
    /\ last.e \notin DOMAIN m_map

\* the breakpoint of m that a floor search for q finds: the one with the
\* greatest key <= q, or the smallest breakpoint when no key is <= q
FloorKey(m, q) ==
    LET below == {k \in DOMAIN m : k <= q}
    IN IF below # {}
       THEN CHOOSE k \in below : \A j \in below : j <= k
       ELSE CHOOSE k \in DOMAIN m : \A j \in DOMAIN m : k <= j

\* C14: for every non-empty table and every key q, get(q) is the value of the
\* breakpoint with the greatest key <= q (the greatest breakpoint when q
\* exceeds all keys), and of the smallest breakpoint when no key is <= q.
GetIsFloorSearch ==
    last.op = "get" => last.v = m_map[FloorKey(m_map, last.b)]

\* a get below every key of a table of several breakpoints that has none at
\* the minimum key
GetIsFloorSearchWitness ==
    /\ last.op = "get"
    /\ Cardinality(DOMAIN m_map) >= 3
    /\ \A k \in DOMAIN m_map : last.b < k
    /\ \E k \in DOMAIN m_map : m_map[k] # last.v

\* the breakpoint at k, if any, is the same before and after the last call
SameBreakpoint(k) ==
    /\ (k \in DOMAIN m_map) <=> (k \in DOMAIN prev)
    /\ (k \in DOMAIN prev /\ k \in DOMAIN m_map) => m_map[k] = prev[k]

\* C15: insert(b, e, v) with b <= e neither adds, removes nor changes the
\* value of any breakpoint whose key is < b or > e.
BreakpointFrame ==
    (IsInsert /\ last.b <= last.e) =>
        \A k \in Keys : (k < last.b \/ k > last.e) => SameBreakpoint(k)

\* an insert that changed the table between breakpoints below b and above e
BreakpointFrameWitness ==
    /\ IsInsert /\ last.b < last.e
    /\ m_map # prev
    /\ \E k \in DOMAIN prev : k > last.e
    /\ \E k \in DOMAIN prev : k < last.b

\* C16: after insert(b, e, v) with b < e the table has no breakpoint with a
\* key strictly between b and e.
InteriorCleared ==
    (IsInsert /\ last.b < last.e) =>
        \A k \in DOMAIN m_map : ~(last.b < k /\ k < last.e)

\* an insert over two breakpoints strictly inside its range
InteriorClearedWitness ==
    /\ IsInsert /\ last.b < last.e
    /\ \E j \in DOMAIN prev, k \in DOMAIN prev :
           last.b < j /\ j < k /\ k < last.e

\* C17: insert(b, e, v) with b <= e, no breakpoint with a key in [b, e] and
\* get(b) = v before the call leaves the table identical; and inserting v0
\* with any b <= e into a fresh new(v0) leaves the sentinel breakpoint only.
SameValueNoOp ==
    (IsInsert /\ last.b <= last.e) =>
        /\ ((\A k \in DOMAIN prev : k < last.b \/ k > last.e)
               /\ Get(prev, last.b) = last.v) => m_map = prev
        /\ prev = New(last.v) => m_map = New(last.v)

\* an insert of the value in effect over a region without breakpoints, in
\* a table that has breakpoints on both sides of it
SameValueNoOpWitness ==
    /\ IsInsert /\ last.b < last.e
    /\ \A k \in DOMAIN prev : k < last.b \/ k > last.e
    /\ Get(prev, last.b) = last.v
    /\ \E k \in DOMAIN prev : k > last.e
    /\ last.b \notin DOMAIN m_map

\* C18: a second insert(b, e, v), b < e, issued immediately after the first
\* leaves the breakpoint table exactly as the first left it.
TableIdempotent ==
    (repeated /\ last.b < last.e) => m_map = prev

\* the second of two equal inserts, which found breakpoints at b and at e
\* and deleted and rewrote the one at e
TableIdempotentWitness ==
    /\ repeated /\ last.b < last.e
    /\ last.b # I32Min
    /\ last.b \in DOMAIN prev
    /\ last.e \in DOMAIN prev
    /\ last.e \in DOMAIN m_map
=============================================================================
